---- MODULE Spec2Model ----
(***************************************************************************)
(* Model of audioscribe's audio verification (core/verify_audio.py), the   *)
(* result types (core/models.py), the CLI `verify` command (cli.py) and    *)
(* the prototype job store (audioscribe_core_fake.py).                     *)
(*                                                                         *)
(* Conventions                                                             *)
(*  - A Python str is a sequence of one-character strings, so that         *)
(*    strip(), int() and float() are computed character by character.  A   *)
(*    character that has no TLA+ escape is written by its code point:      *)
(*    "U+000B" is the vertical tab, "U+0969" the Devanagari digit three.   *)
(*  - A Python int is an integer.  A Python float is a record: the finite  *)
(*    value m / 10^e in lowest terms of 10, nan, or inf with a sign.  The  *)
(*    record of a finite value is the decimal number the text or the JSON  *)
(*    literal denotes; the double that Python stores is the one nearest    *)
(*    to it, and Fmt2 rounds that double, not the decimal.                 *)
(*  - An Optional value is a record [some, v]; None is [some |-> FALSE].   *)
(*                                                                         *)
(* Limits of the modelled inputs                                           *)
(*  - Numbers have at most nine significant digits and exponents between   *)
(*    -9 and 9, so that the comparisons with 0 and 5.0 of the nearest      *)
(*    double and of the decimal value agree and no conversion overflows    *)
(*    to inf or underflows to 0.0; -0.0 is not told apart from 0.0.        *)
(*  - codec_name is a string or missing.                                   *)
(***************************************************************************)
EXTENDS Integers, Sequences, FiniteSets, TLC

VARIABLES caller, strict, pathKind, pc, proc, data, metrics, warnings,
          errors, result, exc, cliPc, cliOut, exitCode,
          jobs, pjPc, pjJob, pjIdx, jobExc

vars == <<caller, strict, pathKind, pc, proc, data, metrics, warnings,
          errors, result, exc, cliPc, cliOut, exitCode,
          jobs, pjPc, pjJob, pjIdx, jobExc>>

\* the state of audioscribe_core_fake
jobVars == <<jobs, pjPc, pjJob, pjIdx, jobExc>>

\* the state of verify_audio and of the CLI verify command
verifyVars == <<caller, strict, pathKind, pc, proc, data, metrics, warnings,
                errors, result, exc, cliPc, cliOut, exitCode>>

(***************************************************************************)
(* Bounds of the model                                                     *)
(***************************************************************************)
MaxStreams == 2
MaxJobs == 1
MaxUrls == 3

(***************************************************************************)
(* Program constants                                                       *)
(***************************************************************************)
MinDurationS == 5
LowBitrateKbps == 96
BitsPerKbit == 1000

PathName == "a.mp3"

(***************************************************************************)
(* Python values                                                           *)
(***************************************************************************)
NoneV == [some |-> FALSE, v |-> 0]
Some(x) == [some |-> TRUE, v |-> x]
NoneStr == [some |-> FALSE, v |-> ""]

RECURSIVE Pow10(_)
Pow10(n) == IF n = 0 THEN 1 ELSE 10 * Pow10(n - 1)

\* a Python float: the finite value m / 10^e, nan, or inf with sign m
Fin(m, e) == [k |-> "fin", m |-> m, e |-> e]
NaN == [k |-> "nan", m |-> 0, e |-> 0]
Inf(sign) == [k |-> "inf", m |-> sign, e |-> 0]
Zero == Fin(0, 0)

\* the one record that stands for the value m / 10^e
RECURSIVE Norm(_, _)
Norm(m, e) ==
    IF m = 0 THEN Zero
    ELSE IF e > 0 /\ m % 10 = 0 THEN Norm(m \div 10, e - 1)
    ELSE Fin(m, e)

NoneFloat == [some |-> FALSE, v |-> Zero]

\* d <= 0 for a float d
FloatLe0(d) ==
    CASE d.k = "fin" -> d.m <= 0
      [] d.k = "inf" -> d.m < 0
      [] d.k = "nan" -> FALSE

\* d < n and d >= n for a float d and an integer n; both are false for nan
FloatLt(d, n) ==
    CASE d.k = "fin" -> (d.m \div Pow10(d.e)) < n
      [] d.k = "inf" -> d.m < 0
      [] d.k = "nan" -> FALSE

FloatGe(d, n) ==
    CASE d.k = "fin" -> (d.m \div Pow10(d.e)) >= n
      [] d.k = "inf" -> d.m > 0
      [] d.k = "nan" -> FALSE

\* JSON values as json.loads delivers them inside a dict; "absent" is a
\* missing key, for which dict.get(key) returns None.  n is the truth value
\* of a bool and the number of entries of a list or an object.
Absent == [t |-> "absent", n |-> 0, f |-> Zero, s |-> <<>>]
JNull == [t |-> "null", n |-> 0, f |-> Zero, s |-> <<>>]
JNum(x) == [t |-> "num", n |-> 0, f |-> x, s |-> <<>>]
JInt(i) == JNum(Fin(i, 0))
JFloat(m, e) == JNum(Norm(m, e))
JBool(b) == [t |-> "bool", n |-> IF b THEN 1 ELSE 0, f |-> Zero, s |-> <<>>]
JStr(cs) == [t |-> "str", n |-> 0, f |-> Zero, s |-> cs]
JList(len) == [t |-> "list", n |-> len, f |-> Zero, s |-> <<>>]
JObject(len) == [t |-> "object", n |-> len, f |-> Zero, s |-> <<>>]

\* bool(x) for the value returned by dict.get(key)
Truthy(x) ==
    CASE x.t = "absent" -> FALSE
      [] x.t = "null" -> FALSE
      [] x.t = "num" -> x.f # Zero
      [] x.t = "bool" -> x.n # 0
      [] x.t = "str" -> Len(x.s) > 0
      [] x.t = "list" -> x.n # 0
      [] x.t = "object" -> x.n # 0

\* the characters int() and float() skip around a number
NumWhitespace ==
    {" ", "\t", "\n", "\r", "\f", "U+000B", "U+0085", "U+00A0", "U+1680",
     "U+2000", "U+2001", "U+2002", "U+2003", "U+2004", "U+2005", "U+2006",
     "U+2007", "U+2008", "U+2009", "U+200A", "U+2028", "U+2029", "U+202F",
     "U+205F", "U+3000"}

\* the characters str.strip() removes (those of str.isspace())
Whitespace == NumWhitespace \cup {"U+001C", "U+001D", "U+001E", "U+001F"}

\* the decimal digits of Unicode (category Nd), one row per script, each
\* row in the order 0 to 9; int() and float() accept them all
DecimalDigits == <<
    <<"0", "1", "2", "3", "4", "5", "6", "7", "8", "9">>,
    <<"U+0660", "U+0661", "U+0662", "U+0663", "U+0664",
      "U+0665", "U+0666", "U+0667", "U+0668", "U+0669">>,
    <<"U+06F0", "U+06F1", "U+06F2", "U+06F3", "U+06F4",
      "U+06F5", "U+06F6", "U+06F7", "U+06F8", "U+06F9">>,
    <<"U+07C0", "U+07C1", "U+07C2", "U+07C3", "U+07C4",
      "U+07C5", "U+07C6", "U+07C7", "U+07C8", "U+07C9">>,
    <<"U+0966", "U+0967", "U+0968", "U+0969", "U+096A",
      "U+096B", "U+096C", "U+096D", "U+096E", "U+096F">>,
    <<"U+09E6", "U+09E7", "U+09E8", "U+09E9", "U+09EA",
      "U+09EB", "U+09EC", "U+09ED", "U+09EE", "U+09EF">>,
    <<"U+0A66", "U+0A67", "U+0A68", "U+0A69", "U+0A6A",
      "U+0A6B", "U+0A6C", "U+0A6D", "U+0A6E", "U+0A6F">>,
    <<"U+0AE6", "U+0AE7", "U+0AE8", "U+0AE9", "U+0AEA",
      "U+0AEB", "U+0AEC", "U+0AED", "U+0AEE", "U+0AEF">>,
    <<"U+0B66", "U+0B67", "U+0B68", "U+0B69", "U+0B6A",
      "U+0B6B", "U+0B6C", "U+0B6D", "U+0B6E", "U+0B6F">>,
    <<"U+0BE6", "U+0BE7", "U+0BE8", "U+0BE9", "U+0BEA",
      "U+0BEB", "U+0BEC", "U+0BED", "U+0BEE", "U+0BEF">>,
    <<"U+0C66", "U+0C67", "U+0C68", "U+0C69", "U+0C6A",
      "U+0C6B", "U+0C6C", "U+0C6D", "U+0C6E", "U+0C6F">>,
    <<"U+0CE6", "U+0CE7", "U+0CE8", "U+0CE9", "U+0CEA",
      "U+0CEB", "U+0CEC", "U+0CED", "U+0CEE", "U+0CEF">>,
    <<"U+0D66", "U+0D67", "U+0D68", "U+0D69", "U+0D6A",
      "U+0D6B", "U+0D6C", "U+0D6D", "U+0D6E", "U+0D6F">>,
    <<"U+0DE6", "U+0DE7", "U+0DE8", "U+0DE9", "U+0DEA",
      "U+0DEB", "U+0DEC", "U+0DED", "U+0DEE", "U+0DEF">>,
    <<"U+0E50", "U+0E51", "U+0E52", "U+0E53", "U+0E54",
      "U+0E55", "U+0E56", "U+0E57", "U+0E58", "U+0E59">>,
    <<"U+0ED0", "U+0ED1", "U+0ED2", "U+0ED3", "U+0ED4",
      "U+0ED5", "U+0ED6", "U+0ED7", "U+0ED8", "U+0ED9">>,
    <<"U+0F20", "U+0F21", "U+0F22", "U+0F23", "U+0F24",
      "U+0F25", "U+0F26", "U+0F27", "U+0F28", "U+0F29">>,
    <<"U+1040", "U+1041", "U+1042", "U+1043", "U+1044",
      "U+1045", "U+1046", "U+1047", "U+1048", "U+1049">>,
    <<"U+1090", "U+1091", "U+1092", "U+1093", "U+1094",
      "U+1095", "U+1096", "U+1097", "U+1098", "U+1099">>,
    <<"U+17E0", "U+17E1", "U+17E2", "U+17E3", "U+17E4",
      "U+17E5", "U+17E6", "U+17E7", "U+17E8", "U+17E9">>,
    <<"U+1810", "U+1811", "U+1812", "U+1813", "U+1814",
      "U+1815", "U+1816", "U+1817", "U+1818", "U+1819">>,
    <<"U+1946", "U+1947", "U+1948", "U+1949", "U+194A",
      "U+194B", "U+194C", "U+194D", "U+194E", "U+194F">>,
    <<"U+19D0", "U+19D1", "U+19D2", "U+19D3", "U+19D4",
      "U+19D5", "U+19D6", "U+19D7", "U+19D8", "U+19D9">>,
    <<"U+1A80", "U+1A81", "U+1A82", "U+1A83", "U+1A84",
      "U+1A85", "U+1A86", "U+1A87", "U+1A88", "U+1A89">>,
    <<"U+1A90", "U+1A91", "U+1A92", "U+1A93", "U+1A94",
      "U+1A95", "U+1A96", "U+1A97", "U+1A98", "U+1A99">>,
    <<"U+1B50", "U+1B51", "U+1B52", "U+1B53", "U+1B54",
      "U+1B55", "U+1B56", "U+1B57", "U+1B58", "U+1B59">>,
    <<"U+1BB0", "U+1BB1", "U+1BB2", "U+1BB3", "U+1BB4",
      "U+1BB5", "U+1BB6", "U+1BB7", "U+1BB8", "U+1BB9">>,
    <<"U+1C40", "U+1C41", "U+1C42", "U+1C43", "U+1C44",
      "U+1C45", "U+1C46", "U+1C47", "U+1C48", "U+1C49">>,
    <<"U+1C50", "U+1C51", "U+1C52", "U+1C53", "U+1C54",
      "U+1C55", "U+1C56", "U+1C57", "U+1C58", "U+1C59">>,
    <<"U+A620", "U+A621", "U+A622", "U+A623", "U+A624",
      "U+A625", "U+A626", "U+A627", "U+A628", "U+A629">>,
    <<"U+A8D0", "U+A8D1", "U+A8D2", "U+A8D3", "U+A8D4",
      "U+A8D5", "U+A8D6", "U+A8D7", "U+A8D8", "U+A8D9">>,
    <<"U+A900", "U+A901", "U+A902", "U+A903", "U+A904",
      "U+A905", "U+A906", "U+A907", "U+A908", "U+A909">>,
    <<"U+A9D0", "U+A9D1", "U+A9D2", "U+A9D3", "U+A9D4",
      "U+A9D5", "U+A9D6", "U+A9D7", "U+A9D8", "U+A9D9">>,
    <<"U+A9F0", "U+A9F1", "U+A9F2", "U+A9F3", "U+A9F4",
      "U+A9F5", "U+A9F6", "U+A9F7", "U+A9F8", "U+A9F9">>,
    <<"U+AA50", "U+AA51", "U+AA52", "U+AA53", "U+AA54",
      "U+AA55", "U+AA56", "U+AA57", "U+AA58", "U+AA59">>,
    <<"U+ABF0", "U+ABF1", "U+ABF2", "U+ABF3", "U+ABF4",
      "U+ABF5", "U+ABF6", "U+ABF7", "U+ABF8", "U+ABF9">>,
    <<"U+FF10", "U+FF11", "U+FF12", "U+FF13", "U+FF14",
      "U+FF15", "U+FF16", "U+FF17", "U+FF18", "U+FF19">>,
    <<"U+104A0", "U+104A1", "U+104A2", "U+104A3", "U+104A4",
      "U+104A5", "U+104A6", "U+104A7", "U+104A8", "U+104A9">>,
    <<"U+10D30", "U+10D31", "U+10D32", "U+10D33", "U+10D34",
      "U+10D35", "U+10D36", "U+10D37", "U+10D38", "U+10D39">>,
    <<"U+11066", "U+11067", "U+11068", "U+11069", "U+1106A",
      "U+1106B", "U+1106C", "U+1106D", "U+1106E", "U+1106F">>,
    <<"U+110F0", "U+110F1", "U+110F2", "U+110F3", "U+110F4",
      "U+110F5", "U+110F6", "U+110F7", "U+110F8", "U+110F9">>,
    <<"U+11136", "U+11137", "U+11138", "U+11139", "U+1113A",
      "U+1113B", "U+1113C", "U+1113D", "U+1113E", "U+1113F">>,
    <<"U+111D0", "U+111D1", "U+111D2", "U+111D3", "U+111D4",
      "U+111D5", "U+111D6", "U+111D7", "U+111D8", "U+111D9">>,
    <<"U+112F0", "U+112F1", "U+112F2", "U+112F3", "U+112F4",
      "U+112F5", "U+112F6", "U+112F7", "U+112F8", "U+112F9">>,
    <<"U+11450", "U+11451", "U+11452", "U+11453", "U+11454",
      "U+11455", "U+11456", "U+11457", "U+11458", "U+11459">>,
    <<"U+114D0", "U+114D1", "U+114D2", "U+114D3", "U+114D4",
      "U+114D5", "U+114D6", "U+114D7", "U+114D8", "U+114D9">>,
    <<"U+11650", "U+11651", "U+11652", "U+11653", "U+11654",
      "U+11655", "U+11656", "U+11657", "U+11658", "U+11659">>,
    <<"U+116C0", "U+116C1", "U+116C2", "U+116C3", "U+116C4",
      "U+116C5", "U+116C6", "U+116C7", "U+116C8", "U+116C9">>,
    <<"U+11730", "U+11731", "U+11732", "U+11733", "U+11734",
      "U+11735", "U+11736", "U+11737", "U+11738", "U+11739">>,
    <<"U+118E0", "U+118E1", "U+118E2", "U+118E3", "U+118E4",
      "U+118E5", "U+118E6", "U+118E7", "U+118E8", "U+118E9">>,
    <<"U+11950", "U+11951", "U+11952", "U+11953", "U+11954",
      "U+11955", "U+11956", "U+11957", "U+11958", "U+11959">>,
    <<"U+11C50", "U+11C51", "U+11C52", "U+11C53", "U+11C54",
      "U+11C55", "U+11C56", "U+11C57", "U+11C58", "U+11C59">>,
    <<"U+11D50", "U+11D51", "U+11D52", "U+11D53", "U+11D54",
      "U+11D55", "U+11D56", "U+11D57", "U+11D58", "U+11D59">>,
    <<"U+11DA0", "U+11DA1", "U+11DA2", "U+11DA3", "U+11DA4",
      "U+11DA5", "U+11DA6", "U+11DA7", "U+11DA8", "U+11DA9">>,
    <<"U+16A60", "U+16A61", "U+16A62", "U+16A63", "U+16A64",
      "U+16A65", "U+16A66", "U+16A67", "U+16A68", "U+16A69">>,
    <<"U+16AC0", "U+16AC1", "U+16AC2", "U+16AC3", "U+16AC4",
      "U+16AC5", "U+16AC6", "U+16AC7", "U+16AC8", "U+16AC9">>,
    <<"U+16B50", "U+16B51", "U+16B52", "U+16B53", "U+16B54",
      "U+16B55", "U+16B56", "U+16B57", "U+16B58", "U+16B59">>,
    <<"U+1D7CE", "U+1D7CF", "U+1D7D0", "U+1D7D1", "U+1D7D2",
      "U+1D7D3", "U+1D7D4", "U+1D7D5", "U+1D7D6", "U+1D7D7">>,
    <<"U+1D7D8", "U+1D7D9", "U+1D7DA", "U+1D7DB", "U+1D7DC",
      "U+1D7DD", "U+1D7DE", "U+1D7DF", "U+1D7E0", "U+1D7E1">>,
    <<"U+1D7E2", "U+1D7E3", "U+1D7E4", "U+1D7E5", "U+1D7E6",
      "U+1D7E7", "U+1D7E8", "U+1D7E9", "U+1D7EA", "U+1D7EB">>,
    <<"U+1D7EC", "U+1D7ED", "U+1D7EE", "U+1D7EF", "U+1D7F0",
      "U+1D7F1", "U+1D7F2", "U+1D7F3", "U+1D7F4", "U+1D7F5">>,
    <<"U+1D7F6", "U+1D7F7", "U+1D7F8", "U+1D7F9", "U+1D7FA",
      "U+1D7FB", "U+1D7FC", "U+1D7FD", "U+1D7FE", "U+1D7FF">>,
    <<"U+1E140", "U+1E141", "U+1E142", "U+1E143", "U+1E144",
      "U+1E145", "U+1E146", "U+1E147", "U+1E148", "U+1E149">>,
    <<"U+1E2F0", "U+1E2F1", "U+1E2F2", "U+1E2F3", "U+1E2F4",
      "U+1E2F5", "U+1E2F6", "U+1E2F7", "U+1E2F8", "U+1E2F9">>,
    <<"U+1E950", "U+1E951", "U+1E952", "U+1E953", "U+1E954",
      "U+1E955", "U+1E956", "U+1E957", "U+1E958", "U+1E959">>,
    <<"U+1FBF0", "U+1FBF1", "U+1FBF2", "U+1FBF3", "U+1FBF4",
      "U+1FBF5", "U+1FBF6", "U+1FBF7", "U+1FBF8", "U+1FBF9">>>>
Scripts == 1..Len(DecimalDigits)
Digits == {DecimalDigits[r][i] : r \in Scripts, i \in 1..10}
DigitVal(c) ==
    (CHOOSE i \in 1..10 : \E r \in Scripts : DecimalDigits[r][i] = c) - 1

RECURSIVE LStrip(_, _)
LStrip(cs, ws) ==
    IF cs # <<>> /\ Head(cs) \in ws THEN LStrip(Tail(cs), ws) ELSE cs

RECURSIVE RStrip(_, _)
RStrip(cs, ws) ==
    IF cs # <<>> /\ cs[Len(cs)] \in ws
    THEN RStrip(SubSeq(cs, 1, Len(cs) - 1), ws)
    ELSE cs

\* str.strip()
Strip(cs) == RStrip(LStrip(cs, Whitespace), Whitespace)

\* the text int() and float() parse
NumStrip(cs) == RStrip(LStrip(cs, NumWhitespace), NumWhitespace)

\* the Python str a character sequence stands for
RECURSIVE Join(_)
Join(cs) == IF cs = <<>> THEN "" ELSE Head(cs) \o Join(Tail(cs))

UpperChars == <<"A", "B", "C", "D", "E", "F", "G", "H", "I", "J", "K", "L",
                "M", "N", "O", "P", "Q", "R", "S", "T", "U", "V", "W", "X",
                "Y", "Z">>
LowerChars == <<"a", "b", "c", "d", "e", "f", "g", "h", "i", "j", "k", "l",
                "m", "n", "o", "p", "q", "r", "s", "t", "u", "v", "w", "x",
                "y", "z">>
LowerChar(c) ==
    IF \E i \in 1..26 : UpperChars[i] = c
    THEN LowerChars[CHOOSE i \in 1..26 : UpperChars[i] = c]
    ELSE c
LowerStr(cs) == [i \in 1..Len(cs) |-> LowerChar(cs[i])]

\* digits, with single underscores allowed between two digits
DigitGroup(cs) ==
    /\ cs # <<>>
    /\ \A i \in 1..Len(cs) : cs[i] \in Digits \cup {"_"}
    /\ cs[1] \in Digits
    /\ cs[Len(cs)] \in Digits
    /\ \A i \in 1..(Len(cs) - 1) : ~(cs[i] = "_" /\ cs[i + 1] = "_")

IsDigit(c) == c \in Digits
DigitsOf(cs) == SelectSeq(cs, IsDigit)

RECURSIVE ParseDigits(_)
ParseDigits(cs) ==
    IF cs = <<>> THEN 0
    ELSE ParseDigits(SubSeq(cs, 1, Len(cs) - 1)) * 10 + DigitVal(cs[Len(cs)])

Ok(x) == [ok |-> TRUE, v |-> x, exc |-> "none"]
Raise(e) == [ok |-> FALSE, v |-> 0, exc |-> e]

HasSign(cs) == cs # <<>> /\ Head(cs) \in {"-", "+"}
Unsigned(cs) == IF HasSign(cs) THEN Tail(cs) ELSE cs
SignOf(cs) == IF cs # <<>> /\ Head(cs) = "-" THEN -1 ELSE 1

\* int(str): surrounding whitespace, an optional sign, a digit group
IntOfStr(cs) ==
    LET body == Unsigned(NumStrip(cs))
    IN IF DigitGroup(body)
       THEN Ok(SignOf(NumStrip(cs)) * ParseDigits(DigitsOf(body)))
       ELSE Raise("ValueError")

DotPos(cs) == IF \E i \in 1..Len(cs) : cs[i] = "."
              THEN CHOOSE i \in 1..Len(cs) :
                       cs[i] = "." /\ \A j \in 1..(i - 1) : cs[j] # "."
              ELSE 0

ExpPos(cs) == IF \E i \in 1..Len(cs) : cs[i] \in {"e", "E"}
              THEN CHOOSE i \in 1..Len(cs) :
                       /\ cs[i] \in {"e", "E"}
                       /\ \A j \in 1..(i - 1) : cs[j] \notin {"e", "E"}
              ELSE 0

\* float(str): surrounding whitespace, an optional sign, then nan, inf or
\* infinity in any case, or digit groups with an optional fraction and an
\* optional exponent
FloatOfStr(cs) ==
    LET body == Unsigned(NumStrip(cs))
        sign == SignOf(NumStrip(cs))
        x == ExpPos(body)
        mant == IF x = 0 THEN body ELSE SubSeq(body, 1, x - 1)
        ex == IF x = 0 THEN <<>> ELSE SubSeq(body, x + 1, Len(body))
        d == DotPos(mant)
        ip == IF d = 0 THEN mant ELSE SubSeq(mant, 1, d - 1)
        fp == IF d = 0 THEN <<>> ELSE SubSeq(mant, d + 1, Len(mant))
        mantOk == /\ ip = <<>> \/ DigitGroup(ip)
                  /\ fp = <<>> \/ DigitGroup(fp)
                  /\ Len(ip) + Len(fp) > 0
        expOk == x = 0 \/ DigitGroup(Unsigned(ex))
        digits == ParseDigits(DigitsOf(ip) \o DigitsOf(fp))
        scale == Len(DigitsOf(fp))
                 - (IF x = 0 THEN 0
                    ELSE SignOf(ex) * ParseDigits(DigitsOf(Unsigned(ex))))
    IN IF LowerStr(body) = <<"n", "a", "n">> THEN Ok(NaN)
       ELSE IF LowerStr(body) \in {<<"i", "n", "f">>,
                                   <<"i", "n", "f", "i", "n", "i", "t", "y">>}
       THEN Ok(Inf(sign))
       ELSE IF mantOk /\ expOk
       THEN Ok(IF scale >= 0 THEN Norm(sign * digits, scale)
               ELSE Norm(sign * digits * Pow10(-scale), 0))
       ELSE Raise("ValueError")

\* float(x) for a truthy x
PyFloat(x) ==
    CASE x.t = "num" -> Ok(x.f)
      [] x.t = "bool" -> Ok(Fin(x.n, 0))
      [] x.t = "str" -> FloatOfStr(x.s)
      [] OTHER -> Raise("TypeError")

\* truncation toward zero, as int(float) does
Trunc(d) ==
    IF d.m >= 0 THEN d.m \div Pow10(d.e) ELSE -((-d.m) \div Pow10(d.e))

\* int(x) for a truthy x
PyInt(x) ==
    CASE x.t = "num" /\ x.f.k = "fin" -> Ok(Trunc(x.f))
      [] x.t = "num" /\ x.f.k = "nan" -> Raise("ValueError")
      [] x.t = "num" /\ x.f.k = "inf" -> Raise("OverflowError")
      [] x.t = "bool" -> Ok(x.n)
      [] x.t = "str" -> IntOfStr(x.s)
      [] OTHER -> Raise("TypeError")

\* two-digit text of a number of hundredths
Hundredths(c) ==
    ToString(c \div 100) \o "." \o
    (IF c % 100 < 10 THEN "0" ELSE "") \o ToString(c % 100)

\* m * 2^k modulo 1000
RECURSIVE DoubleMod(_, _)
DoubleMod(m, k) ==
    IF k = 0 THEN m % 1000 ELSE DoubleMod((2 * m) % 1000, k - 1)

\* the number of doublings that bring m / 1000 into [1, 2)
RECURSIVE Doublings(_)
Doublings(m) == IF m >= 1000 THEN 0 ELSE 1 + Doublings(2 * m)

\* the binary exponent k for which (m / 1000) * 2^k lies in [2^52, 2^53)
MantissaShift(m) ==
    IF m >= 4000 THEN 50
    ELSE IF m >= 2000 THEN 51
    ELSE 52 + Doublings(m)

\* whether the double nearest to m / 1000 (m ends in 5, 0 < m < 8000) is
\* printed with its second decimal rounded up: the double lies above the
\* decimal value, or equals it and the hundredths digit is odd
TieRoundsUp(m) ==
    LET r == DoubleMod(m, MantissaShift(m))
    IN IF m % 125 = 0 THEN ((m \div 10) % 2) = 1
       ELSE r > 500

\* Fmt2 cutting the digits after the second decimal off instead of rounding
Fmt2_Truncating(d) ==
    IF d.e <= 2 THEN Hundredths(d.m * Pow10(2 - d.e))
    ELSE Hundredths(d.m \div Pow10(d.e - 2))

\* "{d:.2f}" for a finite float 0 < d < 5: the double nearest to m / 10^e
\* is rounded to the nearest hundredth, which differs from rounding the
\* decimal value only when that value ends in a 5 at the third decimal
Fmt2(d) ==
    IF d.e <= 2 THEN Hundredths(d.m * Pow10(2 - d.e))
    ELSE
      LET unit == Pow10(d.e - 2)
          c == d.m \div unit
          rest == d.m % unit
      IN IF 2 * rest < unit THEN Hundredths(c)
         ELSE IF 2 * rest > unit THEN Hundredths(c + 1)
         ELSE IF TieRoundsUp(d.m) THEN Hundredths(c + 1)
         ELSE Hundredths(c)

(***************************************************************************)
(* models.py                                                               *)
(***************************************************************************)
VerificationStatus == {"OK", "WARNING", "FAILED"}

\* the value of a member of the str-Enum
StatusValue(st) ==
    CASE st = "OK" -> "ok"
      [] st = "WARNING" -> "warning"
      [] st = "FAILED" -> "failed"

\* VerificationMetrics(): every field defaults to None
VerificationMetrics ==
    [duration_s |-> NoneFloat, file_size_bytes |-> NoneV,
     bitrate_kbps |-> NoneV, sample_rate_hz |-> NoneV, channels |-> NoneV,
     codec |-> NoneStr]

VerificationResult(st, m, w, e) ==
    [status |-> st, metrics |-> m, warnings |-> w, errors |-> e]

\* VerificationResult(status=FAILED, errors=[msg]): metrics and warnings
\* take their defaults
FailedResult(msg) ==
    VerificationResult("FAILED", VerificationMetrics, <<>>, <<msg>>)

\* VerificationResult.ok
ResultOk(r) == r.status = "OK"

NoResult == VerificationResult("NONE", VerificationMetrics, <<>>, <<>>)

(***************************************************************************)
(* Probe outputs                                                           *)
(***************************************************************************)
NoProc == [returncode |-> 0, stderr |-> <<>>, stdout |-> "none"]

\* what subprocess.run raises: subclasses of Exception ...
ProbeExceptions == {"FileNotFoundError(2, 'No such file or directory')",
                    "PermissionError(13, 'Permission denied')"}

\* ... and exceptions that derive from BaseException only
ProbeBaseExceptions == {"KeyboardInterrupt"}

StderrTexts == {<<>>, <<" ", "\n">>, <<"\f">>, <<"U+001C", "\r">>,
                <<"b", "a", "d", "\r", "\n">>}

\* the text of result.stdout: a JSON document, text that is no JSON, or
\* brackets nested deeper than the interpreter's recursion limit
StdoutKinds == {"json", "garbage", "deep"}

DurationInputs ==
    {Absent, JNull, JInt(0), JFloat(3200, 3), JBool(TRUE), JList(0),
     JList(1), JNum(NaN),
     JStr(<<>>), JStr(<<"0">>), JStr(<<"-", "1">>),
     JStr(<<"4", ".", "9", "9", "9">>), JStr(<<"5", ".", "0">>),
     JStr(<<"1", "8", "0", ".", "0">>), JStr(<<"N", "/", "A">>),
     JStr(<<"0", ".", "0", "0", "0", "4">>),
     JStr(<<"0", ".", "1", "2", "5">>), JStr(<<"0", ".", "0", "1", "5">>),
     JStr(<<"1", ".", "0", "0", "5">>), JStr(<<"1", "_", "0">>),
     JStr(<<"1", "e", "3">>), JStr(<<"N", "a", "N">>),
     JStr(<<"-", "i", "n", "f">>), JStr(<<"3", ".", "2", "U+001C">>),
     JStr(<<"U+0969">>)}

BitRateInputs ==
    {Absent, JInt(0), JInt(64000), JBool(TRUE),
     JStr(<<"0">>), JStr(<<"-", "5">>),
     JStr(<<"6", "4", "0", "0", "0">>), JStr(<<"9", "5", "9", "9", "9">>),
     JStr(<<"9", "6", "0", "0", "0">>), JStr(<<"6", "4", "_", "0", "0", "0">>),
     JStr(<<"N", "/", "A">>)}

SizeInputs ==
    {Absent, JInt(0), JStr(<<"0">>), JStr(<<"\r", "7">>),
     JStr(<<"U+FF11", "U+06F2">>), JStr(<<"N", "/", "A">>)}

\* data["format"]: an object, a missing key, or a value of another type
FormatInputs ==
    [kind : {"object"}, duration : DurationInputs, bit_rate : BitRateInputs,
     size : SizeInputs]
    \cup [kind : {"absent", "null", "list", "str", "num"},
          duration : {Absent}, bit_rate : {Absent}, size : {Absent}]

\* an entry met when data["streams"] is iterated: an object, or a value
\* that is no object ("str" also stands for a key of an object and for a
\* character of a string)
StreamInputs ==
    {[kind |-> "object", codec_type |-> "audio",
      sample_rate |-> JStr(<<"4", "4", "1", "0", "0">>),
      channels |-> JInt(2), codec_name |-> Some("mp3")],
     [kind |-> "object", codec_type |-> "audio",
      sample_rate |-> JStr(<<"N", "/", "A">>),
      channels |-> JInt(0), codec_name |-> NoneStr],
     [kind |-> "object", codec_type |-> "video",
      sample_rate |-> Absent, channels |-> Absent,
      codec_name |-> Some("mjpeg")],
     [kind |-> "str", codec_type |-> "absent",
      sample_rate |-> Absent, channels |-> Absent, codec_name |-> NoneStr]}

StrEntry == [kind |-> "str", codec_type |-> "absent", sample_rate |-> Absent,
             channels |-> Absent, codec_name |-> NoneStr]

SeqsUpTo(S, n) == UNION {[1..k -> S] : k \in 0..n}

\* data["streams"]: a list, a missing key, or a value of another type;
\* items is what iterating the value yields
StreamsInputs ==
    [kind : {"list"}, items : SeqsUpTo(StreamInputs, MaxStreams)]
    \cup [kind : {"absent", "null", "num"}, items : {<<>>}]
    \cup [kind : {"str", "object"}, items : {<<>>, <<StrEntry>>}]

NoFormat == [kind |-> "absent", duration |-> Absent, bit_rate |-> Absent,
             size |-> Absent]
NoStreams == [kind |-> "absent", items |-> <<>>]

\* what json.loads(result.stdout) returns
DataInputs ==
    [top : {"object"}, format : FormatInputs, streams : StreamsInputs]
    \cup [top : {"list", "null", "str", "num", "bool"},
          format : {NoFormat}, streams : {NoStreams}]

NoData == [top |-> "none", format |-> NoFormat, streams |-> NoStreams]

(***************************************************************************)
(* verify_audio: extraction of the metrics from the parsed probe output    *)
(***************************************************************************)
\* the default {} of next(...): every get() on it returns None
EmptyStream ==
    [kind |-> "object", codec_type |-> "absent", sample_rate |-> Absent,
     channels |-> Absent, codec_name |-> NoneStr]

\* next((s for s in streams if s.get("codec_type") == "audio"), {}):
\* entries are visited in order and only up to the first audio stream
RECURSIVE NextAudio(_)
NextAudio(items) ==
    IF items = <<>> THEN Ok(EmptyStream)
    ELSE IF Head(items).kind # "object" THEN Raise("AttributeError")
    ELSE IF Head(items).codec_type = "audio" THEN Ok(Head(items))
    ELSE NextAudio(Tail(items))

\* float(get("duration", 0)) if get("duration") else None
DurationOf(x) ==
    IF Truthy(x)
    THEN LET r == PyFloat(x) IN IF r.ok THEN Ok(Some(r.v)) ELSE r
    ELSE Ok(NoneFloat)

\* int(get("bit_rate", 0)) // 1000 if get("bit_rate") else None
BitrateOf(x) ==
    IF Truthy(x)
    THEN LET r == PyInt(x)
         IN IF r.ok THEN Ok(Some(r.v \div BitsPerKbit)) ELSE r
    ELSE Ok(NoneV)

\* int(get(key, 0)) if get(key) else None
IntFieldOf(x) ==
    IF Truthy(x)
    THEN LET r == PyInt(x) IN IF r.ok THEN Ok(Some(r.v)) ELSE r
    ELSE Ok(NoneV)

\* lines 60-81: the metrics, or the exception that escapes
Extract(d) ==
    IF d.top # "object" THEN Raise("AttributeError")
    ELSE IF d.streams.kind \in {"null", "num"} THEN Raise("TypeError")
    ELSE
      LET a == NextAudio(d.streams.items)
      IN IF ~a.ok THEN a
         ELSE IF d.format.kind \notin {"object", "absent"}
         THEN Raise("AttributeError")
         ELSE
           LET f == d.format
               dur == DurationOf(f.duration)
               br == BitrateOf(f.bit_rate)
               sr == IntFieldOf(a.v.sample_rate)
               ch == IntFieldOf(a.v.channels)
               sz == IntFieldOf(f.size)
           IN IF ~dur.ok THEN dur
              ELSE IF ~br.ok THEN br
              ELSE IF ~sr.ok THEN sr
              ELSE IF ~ch.ok THEN ch
              ELSE IF ~sz.ok THEN sz
              ELSE Ok([duration_s |-> dur.v, file_size_bytes |-> sz.v,
                       bitrate_kbps |-> br.v, sample_rate_hz |-> sr.v,
                       channels |-> ch.v, codec |-> a.v.codec_name])

\* DurationErrors with "duration < 0" in place of "duration <= 0"
DurationErrors_StrictZero(duration) ==
    IF ~duration.some \/ (FloatLe0(duration.v) /\ duration.v # Zero)
    THEN <<"Invalid or zero duration">>
    ELSE IF FloatLt(duration.v, MinDurationS)
    THEN <<"Duration too short: " \o Fmt2(duration.v) \o "s < 5.00s">>
    ELSE <<>>

\* Rule A1 (lines 88-91): the errors the duration rule appends
DurationErrors(duration) ==
    IF ~duration.some \/ FloatLe0(duration.v)
    THEN <<"Invalid or zero duration">>
    ELSE IF FloatLt(duration.v, MinDurationS)
    THEN <<"Duration too short: " \o Fmt2(duration.v) \o "s < 5.00s">>
    ELSE <<>>

\* BitrateWarnings with "bitrate <= 96" in place of "bitrate < 96"
BitrateWarnings_Inclusive(bitrate) ==
    IF bitrate.some /\ bitrate.v <= LowBitrateKbps
    THEN <<"Low bitrate: " \o ToString(bitrate.v) \o " kbps < 96 kbps">>
    ELSE <<>>

\* Rule A2 (lines 94-95): the warnings the bitrate rule appends
BitrateWarnings(bitrate) ==
    IF bitrate.some /\ bitrate.v < LowBitrateKbps
    THEN <<"Low bitrate: " \o ToString(bitrate.v) \o " kbps < 96 kbps">>
    ELSE <<>>

\* DecideStatus testing the warnings before the errors
DecideStatus_WarningsFirst(errs, warns) ==
    IF warns # <<>> THEN "WARNING"
    ELSE IF errs # <<>> THEN "FAILED"
    ELSE "OK"

\* DecideStatus treating a warning as fatal
DecideStatus_WarningsFatal(errs, warns) ==
    IF errs # <<>> \/ warns # <<>> THEN "FAILED"
    ELSE "OK"

\* lines 98-103
DecideStatus(errs, warns) ==
    IF errs # <<>> THEN "FAILED"
    ELSE IF warns # <<>> THEN "WARNING"
    ELSE "OK"

(***************************************************************************)
(* State machine                                                           *)
(*                                                                         *)
(* pc is the position of the call of verify_audio: "returned" after a      *)
(* return, "raised" after an exception has left the function; exc is the   *)
(* exception that left verify_audio or the verify command.                 *)
(***************************************************************************)
\* _JOBS = {} and no call of process_job in progress
NoJobs == [j \in {} |-> 0]

JobStoreInit ==
    /\ jobs = NoJobs
    /\ pjPc = "idle"
    /\ pjJob = 0
    /\ pjIdx = 0
    /\ jobExc = "none"

NoCliOut == [ok |-> FALSE, status |-> "", message |-> "", warnings |-> <<>>,
             errors |-> <<>>, metrics |-> VerificationMetrics,
             hasResult |-> FALSE]

\* no typer.Exit has been raised
NoExit == -1

\* the path argument: no such file, a directory, a regular file, or a name
\* longer than the file system allows (stat fails with ENAMETOOLONG)
PathKinds == {"missing", "dir", "file", "toolong"}

Init ==
    /\ caller \in {"direct", "cli"}
    /\ strict \in (IF caller = "cli" THEN BOOLEAN ELSE {FALSE})
    /\ pathKind \in PathKinds
    /\ pc = IF caller = "direct" THEN "exists" ELSE "idle"
    /\ cliPc = IF caller = "cli" THEN "exists" ELSE "none"
    /\ proc = NoProc
    /\ data = NoData
    /\ metrics = VerificationMetrics
    /\ warnings = <<>>
    /\ errors = <<>>
    /\ result = NoResult
    /\ exc = "none"
    /\ cliOut = NoCliOut
    /\ exitCode = NoExit
    /\ JobStoreInit

\* return of a VerificationResult from verify_audio
Return(r) ==
    /\ result' = r
    /\ pc' = "returned"
    /\ UNCHANGED exc

\* an exception leaves verify_audio
Raised(e) ==
    /\ exc' = e
    /\ pc' = "raised"
    /\ UNCHANGED result

\* lines 23-27: Path.exists() answers, or raises the OSError of stat
CheckExists ==
    /\ pc = "exists"
    /\ CASE pathKind = "missing" ->
              Return(FailedResult("File not found: " \o PathName))
         [] pathKind = "toolong" -> Raised("OSError")
         [] OTHER -> pc' = "probe" /\ UNCHANGED <<result, exc>>
    /\ UNCHANGED <<jobVars, caller, strict, pathKind, proc, data, metrics,
                   warnings, errors, cliPc, cliOut, exitCode>>

\* lines 38-44: subprocess.run raises; except Exception catches the
\* subclasses of Exception only
ProbeRaises ==
    /\ pc = "probe"
    /\ \E e \in ProbeExceptions \cup ProbeBaseExceptions :
          IF e \in ProbeExceptions
          THEN Return(FailedResult("ffprobe execution failed: " \o e))
          ELSE Raised(e)
    /\ UNCHANGED <<jobVars, caller, strict, pathKind, proc, data, metrics,
                   warnings, errors, cliPc, cliOut, exitCode>>

\* line 39: subprocess.run completes; a directory is never probed
\* successfully, and stderr, which is read only after a non-zero exit, is
\* taken to be empty after exit code 0
ProbeRuns ==
    /\ pc = "probe"
    /\ \E rc \in {0, 1}, err \in StderrTexts, out \in StdoutKinds :
          /\ pathKind = "dir" => rc = 1
          /\ rc = 0 => err = <<>>
          /\ proc' = [returncode |-> rc, stderr |-> err, stdout |-> out]
    /\ pc' = "returncode"
    /\ UNCHANGED <<jobVars, caller, strict, pathKind, data, metrics, warnings,
                   errors, result, exc, cliPc, cliOut, exitCode>>

\* lines 46-50
CheckReturnCode ==
    /\ pc = "returncode"
    /\ IF proc.returncode # 0
       THEN Return(FailedResult(
                IF Strip(proc.stderr) # <<>>
                THEN Join(Strip(proc.stderr))
                ELSE "ffprobe returned error"))
       ELSE pc' = "json" /\ UNCHANGED <<result, exc>>
    /\ UNCHANGED <<jobVars, caller, strict, pathKind, proc, data, metrics,
                   warnings, errors, cliPc, cliOut, exitCode>>

\* lines 52-58: json.loads returns, raises JSONDecodeError (caught), or
\* raises RecursionError (not caught)
ParseJson ==
    /\ pc = "json"
    /\ CASE proc.stdout = "garbage" ->
              /\ Return(FailedResult("Invalid JSON returned from ffprobe"))
              /\ UNCHANGED data
         [] proc.stdout = "deep" ->
              /\ Raised("RecursionError")
              /\ UNCHANGED data
         [] OTHER ->
              /\ \E d \in DataInputs : data' = d
              /\ pc' = "extract"
              /\ UNCHANGED <<result, exc>>
    /\ UNCHANGED <<jobVars, caller, strict, pathKind, proc, metrics, warnings,
                   errors, cliPc, cliOut, exitCode>>

\* lines 60-85
ExtractMetrics ==
    /\ pc = "extract"
    /\ LET r == Extract(data)
       IN IF r.ok
          THEN /\ metrics' = r.v
               /\ pc' = "ruleA1"
               /\ UNCHANGED <<result, exc>>
          ELSE /\ Raised(r.exc)
               /\ UNCHANGED metrics
    /\ UNCHANGED <<jobVars, caller, strict, pathKind, proc, data, warnings,
                   errors, cliPc, cliOut, exitCode>>

\* lines 87-91
RuleA1 ==
    /\ pc = "ruleA1"
    /\ errors' = errors \o DurationErrors(metrics.duration_s)
    /\ pc' = "ruleA2"
    /\ UNCHANGED <<jobVars, caller, strict, pathKind, proc, data, metrics,
                   warnings, result, exc, cliPc, cliOut, exitCode>>

\* RuleA2 skipped once a duration error has been recorded
RuleA2_ShortCircuit ==
    /\ pc = "ruleA2"
    /\ warnings' = IF errors = <<>>
                   THEN warnings \o BitrateWarnings(metrics.bitrate_kbps)
                   ELSE warnings
    /\ pc' = "decide"
    /\ UNCHANGED <<jobVars, caller, strict, pathKind, proc, data, metrics,
                   errors, result, exc, cliPc, cliOut, exitCode>>

\* lines 93-95
RuleA2 ==
    /\ pc = "ruleA2"
    /\ warnings' = warnings \o BitrateWarnings(metrics.bitrate_kbps)
    /\ pc' = "decide"
    /\ UNCHANGED <<jobVars, caller, strict, pathKind, proc, data, metrics,
                   errors, result, exc, cliPc, cliOut, exitCode>>

\* lines 97-110
Decide ==
    /\ pc = "decide"
    /\ Return(VerificationResult(DecideStatus(errors, warnings), metrics,
                                 warnings, errors))
    /\ UNCHANGED <<jobVars, caller, strict, pathKind, proc, data, metrics,
                   warnings, errors, cliPc, cliOut, exitCode>>

(***************************************************************************)
(* cli.py: the verify command                                              *)
(*                                                                         *)
(* exitCode is the code of the typer.Exit the command raises; cliPc is     *)
(* "exited" after a typer.Exit and "crashed" after any other exception     *)
(* has left the command, with nothing echoed.                              *)
(***************************************************************************)
\* _to_jsonable(verifier_result): asdict() of the dataclass; the status
\* member of the str-Enum compares and serialises as its value
ToJsonable(r) ==
    [status |-> StatusValue(r.status), metrics |-> r.metrics,
     warnings |-> r.warnings, errors |-> r.errors]

\* line 171: data.get("status") or "failed"
CliStatus(d) == IF d.status # "" THEN d.status ELSE "failed"

\* CliOk without the strict flag
CliOk_IgnoresStrict(status, strictFlag) ==
    (status = "ok") \/ (status = "warning")

\* line 176
CliOk(status, strictFlag) ==
    (status = "ok") \/ (status = "warning" /\ ~strictFlag)

\* lines 178-183
CliMessage(status, d) ==
    IF status = "ok" THEN "verification ok"
    ELSE IF status = "warning"
    THEN "verification warnings: " \o ToString(Len(d.warnings))
    ELSE "verification failed: " \o ToString(Len(d.errors))

\* CliExitCode with the strict test inverted
CliExitCode_StrictInverted(status, strictFlag) ==
    IF status = "ok" THEN 0
    ELSE IF status = "warning" THEN (IF strictFlag THEN 2 ELSE 1)
    ELSE 1

\* lines 197-205
CliExitCode(status, strictFlag) ==
    IF status = "ok" THEN 0
    ELSE IF status = "warning" THEN (IF strictFlag THEN 1 ELSE 2)
    ELSE 1

\* the dict echoed for a path that is rejected before verification
Rejected(msg) ==
    [ok |-> FALSE, status |-> "", message |-> msg, warnings |-> <<>>,
     errors |-> <<>>, metrics |-> VerificationMetrics, hasResult |-> FALSE]

\* lines 149-156: Path.exists() answers, or raises the OSError of stat,
\* which nothing in the command catches
CliExistsCheck ==
    /\ cliPc = "exists"
    /\ CASE pathKind = "missing" ->
              /\ cliOut' = Rejected("file does not exist")
              /\ exitCode' = 1
              /\ cliPc' = "exited"
              /\ UNCHANGED exc
         [] pathKind = "toolong" ->
              /\ exc' = "OSError"
              /\ cliPc' = "crashed"
              /\ UNCHANGED <<cliOut, exitCode>>
         [] OTHER ->
              /\ cliPc' = "isfile"
              /\ UNCHANGED <<cliOut, exitCode, exc>>
    /\ UNCHANGED <<jobVars, caller, strict, pathKind, pc, proc, data, metrics,
                   warnings, errors, result>>

\* lines 159-166
CliIsFileCheck ==
    /\ cliPc = "isfile"
    /\ IF pathKind # "file"
       THEN /\ cliOut' = Rejected("path is not a file")
            /\ exitCode' = 1
            /\ cliPc' = "exited"
       ELSE /\ cliPc' = "call"
            /\ UNCHANGED <<cliOut, exitCode>>
    /\ UNCHANGED <<jobVars, caller, strict, pathKind, pc, proc, data, metrics,
                   warnings, errors, result, exc>>

\* line 168: the call of verify_audio
CliCallVerify ==
    /\ cliPc = "call"
    /\ pc = "idle"
    /\ pc' = "exists"
    /\ cliPc' = "wait"
    /\ UNCHANGED <<jobVars, caller, strict, pathKind, proc, data, metrics,
                   warnings, errors, result, exc, cliOut, exitCode>>

\* lines 169-205: mapping of the result, the echoed dict and the exit code
CliReport ==
    /\ cliPc = "wait"
    /\ pc = "returned"
    /\ LET d == ToJsonable(result)
           status == CliStatus(d)
       IN /\ cliOut' = [ok |-> CliOk(status, strict), status |-> status,
                        message |-> CliMessage(status, d),
                        warnings |-> d.warnings, errors |-> d.errors,
                        metrics |-> d.metrics, hasResult |-> TRUE]
          /\ exitCode' = CliExitCode(status, strict)
    /\ cliPc' = "exited"
    /\ UNCHANGED <<jobVars, caller, strict, pathKind, pc, proc, data, metrics,
                   warnings, errors, result, exc>>

\* line 168: an exception of verify_audio is not caught by the command;
\* it leaves the command with nothing echoed and no typer.Exit raised
CliCrash ==
    /\ cliPc = "wait"
    /\ pc = "raised"
    /\ cliPc' = "crashed"
    /\ UNCHANGED <<jobVars, caller, strict, pathKind, pc, proc, data, metrics,
                   warnings, errors, result, exc, cliOut, exitCode>>

Next ==
    \/ CheckExists
    \/ ProbeRaises
    \/ ProbeRuns
    \/ CheckReturnCode
    \/ ParseJson
    \/ ExtractMetrics
    \/ RuleA1
    \/ RuleA2
    \/ Decide
    \/ CliExistsCheck
    \/ CliIsFileCheck
    \/ CliCallVerify
    \/ CliReport
    \/ CliCrash

Spec == Init /\ [][Next]_vars

TypeOK ==
    /\ caller \in {"direct", "cli"}
    /\ strict \in BOOLEAN
    /\ pathKind \in PathKinds
    /\ pc \in {"idle", "exists", "probe", "returncode", "json", "extract",
               "ruleA1", "ruleA2", "decide", "returned", "raised"}
    /\ cliPc \in {"none", "exists", "isfile", "call", "wait", "exited",
                  "crashed"}
    /\ result.status \in VerificationStatus \cup {"NONE"}
    /\ exitCode \in {NoExit, 0, 1, 2}

(***************************************************************************)
(* audioscribe_core_fake.py: the in-memory job store                       *)
(*                                                                         *)
(* A job id is the number of the creation (the code draws a fresh uuid);   *)
(* created_at is written once and read by no operation modelled here.      *)
(* The calls are sequential: the module starts no thread.  pjPc is the     *)
(* position of the call of process_job: "returned" after its return,       *)
(* "raised" after an exception has left it; jobExc is the exception that   *)
(* left the last call of create_job or process_job.                        *)
(***************************************************************************)
JobIds == 1..MaxJobs

\* elements of the urls argument: strings (as characters) and a non-string
NonStr == [isStr |-> FALSE, s |-> <<>>]
UrlStr(cs) == [isStr |-> TRUE, s |-> cs]

UrlInputs ==
    {UrlStr(<<"a">>), UrlStr(<<" ", "a", "\r">>), UrlStr(<<"b">>),
     UrlStr(<<"\r", "U+001C">>), NonStr}

\* the urls argument of create_job: a list, or something that is no list
UrlsInputs ==
    [isList : {TRUE}, items : SeqsUpTo(UrlInputs, MaxUrls)]
    \cup {[isList |-> FALSE, items |-> <<>>]}

\* lines 45-52: the cleaned list, or ValueError
Cleaned(urls) ==
    IF ~urls.isList \/ urls.items = <<>> THEN Raise("ValueError")
    ELSE IF \E i \in 1..Len(urls.items) :
                ~urls.items[i].isStr \/ Strip(urls.items[i].s) = <<>>
    THEN Raise("ValueError")
    ELSE Ok([i \in 1..Len(urls.items) |-> Join(Strip(urls.items[i].s))])

\* lines 55-60: Job(job_id, urls=cleaned, progress={u: "queued"}), with the
\* default status "created"
NewJob(id, cleaned) ==
    [job_id |-> id, urls |-> cleaned, status |-> "created",
     progress |-> [u \in {cleaned[i] : i \in 1..Len(cleaned)} |-> "queued"]]

\* print() writes its line, or raises: OSError on a broken stream,
\* ValueError on a closed one, KeyboardInterrupt when the process is
\* interrupted while it writes ...
PrintOutcomes == {"printed", "OSError", "ValueError", "KeyboardInterrupt"}

\* ... or UnicodeEncodeError when the stream's encoding has no code for a
\* character of a URL, a video id or an exception text
TextPrintOutcomes == PrintOutcomes \cup {"UnicodeEncodeError"}

\* the outcomes of print() that the clause except Exception catches
PrintExceptions == {"OSError", "ValueError", "UnicodeEncodeError"}

\* Path("outputs").mkdir(parents=True, exist_ok=True), line 95: done, or
\* any OSError of the system call: outputs exists and is no directory, the
\* working directory has been removed, a component of the path is no
\* directory, the directory may not be written; "OSError" is an error of
\* any other number (no space left, read-only file system, I/O error).
\* An interrupt may arrive during the call as during any other.
MkdirOutcomes ==
    {"made", "FileExistsError", "FileNotFoundError", "NotADirectoryError",
     "PermissionError", "OSError", "KeyboardInterrupt"}

\* what the calls of yt-dlp and the test of the target file (lines 104-139)
\* come to; "interrupted" is an exception raised there that derives from
\* BaseException only, such as KeyboardInterrupt
DownloadOutcomes ==
    {"mp3_written", "mp3_missing", "extract_info_raises", "download_raises",
     "interrupted"}

\* the target file has been tested and the entry set (line 140 or 143)
EntrySet(outcome) == outcome \in {"mp3_written", "mp3_missing"}

\* the try block (lines 104-144) ends by an exception that the clause
\* except Exception catches: one raised by yt-dlp, or one raised by the
\* print of line 141 or 144
Caught(outcome, tryPrint) ==
    \/ outcome \in {"extract_info_raises", "download_raises"}
    \/ EntrySet(outcome) /\ tryPrint \in PrintExceptions

\* lines 102-147: the progress entry the loop body leaves; an interrupt
\* during the print of line 141 or 144 leaves what line 140 or 143 wrote
DownloadProgress(outcome, tryPrint) ==
    CASE outcome = "interrupted" -> "processing"
      [] Caught(outcome, tryPrint) -> "failed"
      [] outcome = "mp3_written" -> "done"
      [] outcome = "mp3_missing" -> "failed"

\* the exception that leaves the loop body, "none" when the loop goes on:
\* an interrupt passes the except clause, and the print of line 148 runs
\* inside the handler, where nothing catches
DownloadRaises(outcome, tryPrint, handlerPrint) ==
    IF outcome = "interrupted" THEN "KeyboardInterrupt"
    ELSE IF EntrySet(outcome) /\ tryPrint = "KeyboardInterrupt"
    THEN "KeyboardInterrupt"
    ELSE IF Caught(outcome, tryPrint) /\ handlerPrint # "printed"
    THEN handlerPrint
    ELSE "none"

NoCall == pjPc \in {"idle", "returned", "raised"}

\* create_job(urls), lines 40-65: the job is stored before the two prints
CreateJob ==
    /\ NoCall
    /\ Cardinality(DOMAIN jobs) < MaxJobs
    /\ \E urls \in UrlsInputs, print \in PrintOutcomes :
          LET c == Cleaned(urls)
              id == Cardinality(DOMAIN jobs) + 1
          IN IF c.ok
             THEN /\ jobs' = [j \in DOMAIN jobs \cup {id} |->
                                 IF j = id THEN NewJob(id, c.v) ELSE jobs[j]]
                  /\ jobExc' = IF print = "printed" THEN "none" ELSE print
             ELSE /\ jobExc' = c.exc
                  /\ UNCHANGED jobs
    /\ UNCHANGED <<verifyVars, pjPc, pjJob, pjIdx>>

\* process_job(job_id), lines 90-98: the lookup, the output directory, the
\* first print, then status = "running"
ProcessJobStart ==
    /\ NoCall
    /\ \E id \in JobIds, mkdir \in MkdirOutcomes, print \in PrintOutcomes :
          IF id \notin DOMAIN jobs
          THEN /\ jobExc' = "KeyError"
               /\ pjPc' = "raised"
               /\ pjJob' = 0
               /\ UNCHANGED <<jobs, pjIdx>>
          ELSE IF mkdir # "made" \/ print # "printed"
          THEN /\ jobExc' = IF mkdir # "made" THEN mkdir ELSE print
               /\ pjPc' = "raised"
               /\ pjJob' = id
               /\ UNCHANGED <<jobs, pjIdx>>
          ELSE /\ jobs' = [jobs EXCEPT ![id].status = "running"]
               /\ pjJob' = id
               /\ pjIdx' = 1
               /\ pjPc' = "loop"
               /\ jobExc' = "none"
    /\ UNCHANGED verifyVars

\* lines 100-102: the print, outside the try block, then the next URL is
\* marked "processing"
BeginUrl ==
    /\ pjPc = "loop"
    /\ pjIdx <= Len(jobs[pjJob].urls)
    /\ \E print \in TextPrintOutcomes :
          IF print = "printed"
          THEN /\ jobs' = [jobs EXCEPT
                      ![pjJob].progress[jobs[pjJob].urls[pjIdx]] =
                          "processing"]
               /\ pjPc' = "download"
               /\ UNCHANGED jobExc
          ELSE /\ jobExc' = print
               /\ pjPc' = "raised"
               /\ UNCHANGED jobs
    /\ UNCHANGED <<verifyVars, pjJob, pjIdx>>

\* lines 104-148: the try block and its except clause
Download ==
    /\ pjPc = "download"
    /\ \E outcome \in DownloadOutcomes,
          tryPrint \in TextPrintOutcomes, handlerPrint \in TextPrintOutcomes :
          LET e == DownloadRaises(outcome, tryPrint, handlerPrint)
          IN /\ jobs' = [jobs EXCEPT
                     ![pjJob].progress[jobs[pjJob].urls[pjIdx]] =
                         DownloadProgress(outcome, tryPrint)]
             /\ IF e = "none"
                THEN /\ pjIdx' = pjIdx + 1
                     /\ pjPc' = "loop"
                     /\ UNCHANGED jobExc
                ELSE /\ jobExc' = e
                     /\ pjPc' = "raised"
                     /\ UNCHANGED pjIdx
    /\ UNCHANGED <<verifyVars, pjJob>>

\* lines 150-151: the loop is over, status = "done", the last print, return
FinishJob ==
    /\ pjPc = "loop"
    /\ pjIdx > Len(jobs[pjJob].urls)
    /\ jobs' = [jobs EXCEPT ![pjJob].status = "done"]
    /\ \E print \in PrintOutcomes :
          IF print = "printed"
          THEN pjPc' = "returned" /\ UNCHANGED jobExc
          ELSE pjPc' = "raised" /\ jobExc' = print
    /\ UNCHANGED <<verifyVars, pjJob, pjIdx>>

\* no verification is running while the job store is exercised
VerifyIdle ==
    /\ caller = "direct"
    /\ strict = FALSE
    /\ pathKind = "missing"
    /\ pc = "idle"
    /\ cliPc = "none"
    /\ proc = NoProc
    /\ data = NoData
    /\ metrics = VerificationMetrics
    /\ warnings = <<>>
    /\ errors = <<>>
    /\ result = NoResult
    /\ exc = "none"
    /\ cliOut = NoCliOut
    /\ exitCode = NoExit

JobInit == VerifyIdle /\ JobStoreInit

JobNext ==
    \/ CreateJob
    \/ ProcessJobStart
    \/ BeginUrl
    \/ Download
    \/ FinishJob

JobSpec == JobInit /\ [][JobNext]_vars

(***************************************************************************)
(* Properties                                                              *)
(***************************************************************************)
\* the call of verify_audio has ended
Ended == pc \in {"returned", "raised"}

\* verify_audio returned from the rule evaluation
RuleResult == pc = "returned" /\ data.top # "none"

LowBitrateText(kbps) == "Low bitrate: " \o ToString(kbps) \o " kbps < 96 kbps"

InList(x, list) == \E i \in 1..Len(list) : list[i] = x

\* C1: every returned result has status failed iff errors is non-empty,
\* warning iff errors is empty and warnings is not, ok iff both are empty.
C1_VerdictDerivation ==
    pc = "returned" =>
        /\ (result.status = "FAILED") <=> (result.errors # <<>>)
        /\ (result.status = "WARNING") <=>
               (result.errors = <<>> /\ result.warnings # <<>>)
        /\ (result.status = "OK") <=>
               (result.errors = <<>> /\ result.warnings = <<>>)

\* a result of the rule evaluation with an error and a warning together
C1_Witness ==
    /\ RuleResult
    /\ result.status = "FAILED"
    /\ result.errors # <<>>
    /\ result.warnings # <<>>

\* C2 (as claimed): verify_audio never raises; every call that ends, ends
\* by returning a result.
C2_NeverRaises == pc # "raised"

\* C3 (as claimed): when extraction fails (the path does not exist, the
\* probe raises or exits non-zero, or its output is no parsable JSON) the
\* call gives a result that is failed, with exactly one error, no warning
\* and default metrics; no rule has been evaluated.
C3_ExtractionFailure ==
    (Ended /\ data.top = "none") =>
        /\ pc = "returned"
        /\ result.status = "FAILED"
        /\ Len(result.errors) = 1
        /\ result.warnings = <<>>
        /\ \A k \in {"duration_s", "file_size_bytes", "bitrate_kbps",
                     "sample_rate_hz", "channels", "codec"} :
               ~result.metrics[k].some
        /\ metrics = VerificationMetrics
        /\ errors = <<>>
        /\ warnings = <<>>

\* C4: extracted metrics whose duration is None or <= 0 give status failed
\* and errors exactly ["Invalid or zero duration"], whatever the bitrate.
C4_InvalidDuration ==
    (RuleResult /\ (~result.metrics.duration_s.some
                    \/ FloatLe0(result.metrics.duration_s.v))) =>
        /\ result.status = "FAILED"
        /\ result.errors = <<"Invalid or zero duration">>

\* a duration of exactly 0.0 that was extracted (not None), low bitrate
C4_Witness ==
    /\ RuleResult
    /\ result.metrics.duration_s = Some(Zero)
    /\ result.metrics.bitrate_kbps = Some(64)
    /\ result.errors = <<"Invalid or zero duration">>

\* the two-decimal text Python prints for the short durations among the
\* modelled inputs; 0.125, 0.015 and 1.005 lie half-way between two
\* hundredths
ShortDurationText(d) ==
    CASE d = Fin(4, 4) -> "0.00"
      [] d = Fin(15, 3) -> "0.01"
      [] d = Fin(125, 3) -> "0.12"
      [] d = Fin(1, 0) -> "1.00"
      [] d = Fin(1005, 3) -> "1.00"
      [] d = Fin(3, 0) -> "3.00"
      [] d = Fin(32, 1) -> "3.20"
      [] d = Fin(4999, 3) -> "5.00"
      [] OTHER -> "?"

\* C5: extracted metrics with 0 < duration < 5.0 give status failed and
\* exactly one error, "Duration too short: <d, two decimals>s < 5.00s";
\* "Invalid or zero duration" is absent.
C5_DurationTooShort ==
    (RuleResult /\ result.metrics.duration_s.some
                /\ ~FloatLe0(result.metrics.duration_s.v)
                /\ FloatLt(result.metrics.duration_s.v, 5)) =>
        /\ result.status = "FAILED"
        /\ result.errors =
              <<"Duration too short: "
                \o ShortDurationText(result.metrics.duration_s.v)
                \o "s < 5.00s">>
        /\ ~InList("Invalid or zero duration", result.errors)

\* 4.999 s is reported, rounded to two decimals
C5_Witness ==
    /\ RuleResult
    /\ result.metrics.duration_s = Some(Fin(4999, 3))
    /\ result.errors = <<"Duration too short: 5.00s < 5.00s">>

\* C6: extracted metrics with duration >= 5.0 and bitrate None or >= 96
\* give status ok with no warning and no error, whatever the other fields.
C6_Ok ==
    (RuleResult /\ result.metrics.duration_s.some
                /\ FloatGe(result.metrics.duration_s.v, 5)
                /\ (~result.metrics.bitrate_kbps.some
                    \/ result.metrics.bitrate_kbps.v >= 96)) =>
        /\ result.status = "OK"
        /\ result.warnings = <<>>
        /\ result.errors = <<>>

\* duration exactly 5.0 and bitrate exactly 96, the other fields None
C6_Witness ==
    /\ RuleResult
    /\ result.metrics.duration_s = Some(Fin(5, 0))
    /\ result.metrics.bitrate_kbps = Some(96)
    /\ ~result.metrics.sample_rate_hz.some
    /\ ~result.metrics.codec.some
    /\ ~result.metrics.file_size_bytes.some
    /\ result.status = "OK"

\* C7: extracted metrics with duration >= 5.0 and 0 <= bitrate < 96 give
\* status warning, no error and warnings exactly
\* ["Low bitrate: <bitrate> kbps < 96 kbps"].
C7_LowBitrateWarning ==
    (RuleResult /\ result.metrics.duration_s.some
                /\ FloatGe(result.metrics.duration_s.v, 5)
                /\ result.metrics.bitrate_kbps.some
                /\ result.metrics.bitrate_kbps.v >= 0
                /\ result.metrics.bitrate_kbps.v < 96) =>
        /\ result.status = "WARNING"
        /\ result.errors = <<>>
        /\ result.warnings =
              <<LowBitrateText(result.metrics.bitrate_kbps.v)>>
        /\ result.metrics.bitrate_kbps.v = 64 =>
              result.warnings = <<"Low bitrate: 64 kbps < 96 kbps">>

\* scenario 3: a long file at 64 kbps
C7_Witness ==
    /\ RuleResult
    /\ result.metrics.duration_s = Some(Fin(180, 0))
    /\ result.metrics.bitrate_kbps = Some(64)
    /\ result.status = "WARNING"
    /\ result.warnings = <<"Low bitrate: 64 kbps < 96 kbps">>

\* C8: in every result of the rule evaluation the low-bitrate warning is
\* present iff bitrate is not None and < 96, whether or not a duration
\* error fired.
C8_RulesIndependent ==
    RuleResult =>
        /\ (result.warnings # <<>>) <=>
               (result.metrics.bitrate_kbps.some
                /\ result.metrics.bitrate_kbps.v < 96)
        /\ result.warnings # <<>> =>
               result.warnings =
                   <<LowBitrateText(result.metrics.bitrate_kbps.v)>>

\* scenario 4: the fatal duration error and the warning in one result
C8_Witness ==
    /\ RuleResult
    /\ ~result.metrics.duration_s.some
    /\ result.status = "FAILED"
    /\ result.errors = <<"Invalid or zero duration">>
    /\ result.warnings = <<"Low bitrate: 64 kbps < 96 kbps">>

\* a container-level field that is absent or zero, as a number or as text
AbsentOrZero(x) ==
    \/ x.t = "absent"
    \/ x.t = "num" /\ x.f = Zero
    \/ x.t = "str" /\ FloatOfStr(x.s).ok /\ FloatOfStr(x.s).v = Zero

\* the metrics have been extracted from the parsed probe output
Extracted == pc \in {"ruleA1", "ruleA2", "decide", "returned"}
             /\ data.top = "object" /\ data.format.kind = "object"

\* C9 (as claimed): each container-level field that is absent or zero,
\* number or text, yields None for its metric; a zero bit_rate gives no
\* low-bitrate warning.
C9_ZeroIsNone ==
    Extracted =>
        /\ AbsentOrZero(data.format.duration) => ~metrics.duration_s.some
        /\ AbsentOrZero(data.format.bit_rate) => ~metrics.bitrate_kbps.some
        /\ AbsentOrZero(data.format.size) => ~metrics.file_size_bytes.some
        /\ (pc = "returned" /\ AbsentOrZero(data.format.bit_rate)) =>
               result.warnings = <<>>

\* C10: for an existing regular file the CLI's ok flag is true for verdict
\* ok and for verdict warning without strict; false for warning with
\* strict and for failed.
C10_CliOkFlag ==
    (cliPc = "exited" /\ cliOut.hasResult) =>
        /\ pathKind = "file"
        /\ result.status = "OK" => cliOut.ok
        /\ (result.status = "WARNING" /\ ~strict) => cliOut.ok
        /\ (result.status = "WARNING" /\ strict) => ~cliOut.ok
        /\ result.status = "FAILED" => ~cliOut.ok

\* a warning verdict reported under strict
C10_Witness ==
    /\ cliPc = "exited"
    /\ cliOut.hasResult
    /\ result.status = "WARNING"
    /\ strict
    /\ ~cliOut.ok

\* C11 (as claimed): the exit code is 0 for verdict ok and for verdict
\* warning without strict, non-zero for warning with strict and for failed;
\* hence the exit code is 0 exactly when the printed ok flag is true.
C11_ExitZeroIffOk ==
    (cliPc = "exited" /\ cliOut.hasResult) =>
        /\ (result.status = "OK" \/ (result.status = "WARNING" /\ ~strict))
               => exitCode = 0
        /\ ((result.status = "WARNING" /\ strict)
            \/ result.status = "FAILED") => exitCode # 0
        /\ (exitCode = 0) <=> cliOut.ok

\* C11 (amended): when the command reports a verdict, the exit code is 0
\* for ok, 2 for warning without strict, and 1 for warning with strict and
\* for failed; the exit code is 1 exactly when the printed ok flag is false
\* and 0 exactly when the verdict is ok.
C11_ExitCodes ==
    (cliPc = "exited" /\ cliOut.hasResult) =>
        /\ result.status = "OK" => exitCode = 0
        /\ (result.status = "WARNING" /\ ~strict) => exitCode = 2
        /\ (result.status = "WARNING" /\ strict) => exitCode = 1
        /\ result.status = "FAILED" => exitCode = 1
        /\ (exitCode = 1) <=> ~cliOut.ok
        /\ (exitCode = 0) <=> (result.status = "OK")

\* a warning verdict without strict: ok is printed true, the exit code is 2
C11_Witness ==
    /\ cliPc = "exited"
    /\ cliOut.hasResult
    /\ result.status = "WARNING"
    /\ ~strict
    /\ cliOut.ok
    /\ exitCode = 2

FinalProgress == {"done", "failed"}

\* a call of process_job on a stored job has ended
CallEnded == pjPc \in {"returned", "raised"} /\ pjJob \in DOMAIN jobs

\* process_job has returned for the job pjJob with everything settled
JobSettled ==
    /\ pjPc = "returned"
    /\ jobs[pjJob].status = "done"
    /\ \A u \in DOMAIN jobs[pjJob].progress :
           jobs[pjJob].progress[u] \in FinalProgress
    /\ \A i \in 1..Len(jobs[pjJob].urls) :
           jobs[pjJob].urls[i] \in DOMAIN jobs[pjJob].progress

\* C12 (as claimed): every call of process_job on a created job runs to
\* completion: it ends by returning, and then the job's status is "done"
\* and every URL's progress is "done" or "failed", whatever each download
\* does.
C12_ProcessJobCompletes == CallEnded => JobSettled

====
